---- MODULE Spec2Model ----
(***************************************************************************)
(* Model of app7.py: a Streamlit script that keeps a hash-linked ledger of *)
(* pension records in the session state and derives a payout projection.   *)
(*                                                                         *)
(* Streamlit re-executes the whole script, top to bottom, on every user    *)
(* interaction.  One script run is modelled by the program counter pc      *)
(* walking through the script's sections:                                  *)
(*   "define"  lines  8-27  the dataclasses are (re)defined                *)
(*   "init"    lines 33-35  the chain is created if the session has none   *)
(*   "sidebar" lines 38-58  widgets are read, the button handler runs      *)
(*   "calc"    lines 61-70  the projection is computed                     *)
(*   "display" lines 73-100 metrics and ledger table are rendered          *)
(*   "idle"    the run is over; the page waits for the next interaction    *)
(* The wall clock advances on its own between any two sections.            *)
(*                                                                         *)
(* Numbers.  The script computes in binary floating point; the model uses  *)
(* exact scaled integers instead:                                          *)
(*   salary        in units of 1000 pounds                                 *)
(*   accrual_rate  times AccrualScale (the l.c.m. of 49, 57 and 60)        *)
(*   cpi_index     times CpiScale     (whole percents)                     *)
(*   reduction     times RateScale    (whole percents)                     *)
(* so a unit is scaled by AccrualScale*CpiScale and final_pension by       *)
(* AccrualScale*CpiScale*RateScale.  Rounding error is not modelled.       *)
(*                                                                         *)
(* Hashing.  SHA-256 is modelled as a collision-free constructor over the  *)
(* block string; the block string is the tuple of the four values that the *)
(* f-string concatenates.                                                  *)
(***************************************************************************)
EXTENDS Integers, Sequences, FiniteSets, TLC

\* ------------------------------------------------------------------ bounds
MaxBlocks == 3      \* the chain holds at most this many blocks, genesis included
MaxClock  == 1      \* the wall clock runs from 0 to MaxClock seconds

\* --------------------------------------------------------------- constants
AccrualScale == 55860   \* lcm(49, 57, 60): accrual_rate = 1/x is AccrualScale \div x
CpiScale     == 100     \* line 43: slider value / 100
RateScale    == 100     \* line 58: number_input value / 100

GenesisYear  == 2023    \* line 34

NotDefined   == "undefined"     \* a name the current script run has not bound

\* ------------------------------------------------------------ widget inputs
\* line 42: st.selectbox("Accrual Rate (1/x)", [49, 57, 60], index=0)
AccrualDenoms == {49, 57, 60}

\* line 43: st.slider("Inflation Revaluation (%)", -2.0, 10.0, 2.0), in percent
CpiMin == 0 - 2
CpiMax == 10

\* line 41: st.number_input("Annual Salary", min_value=0.0, step=1000.0)
SalaryMin == 0

\* what the user tries to enter: <<year, salary, accrual denominator, cpi percent>>.
\* The first entry is the widgets' initial state with the year's default, the
\* second a salary of 50000 at 1/49 and 2%; the last three are values that the
\* widgets do not let through.
Entered ==
    { <<2025,  0, 49,  2>>, <<2025, 50, 49,  2>>, <<2025, 50, 57, 0 - 2>>,
      <<2025, 50, 60, 10>>, <<2026,  0, 57, 10>>, <<2026, 50, 49, 0 - 2>>,
      <<2026, 50, 57,  2>>, <<2026, 50, 60, 10>>, <<2025, 50, 49, 10>>,
      <<2026, 50, 60, 0 - 2>>,
      <<2025, 0 - 50, 49, 2>>, <<2025, 50, 50, 2>>, <<2025, 50, 49, 0 - 150>> }

\* the salary widget without min_value=0.0
salary_any(salary) == TRUE

\* line 41: the number input keeps the salary at or above min_value
salary_ok(salary) == salary >= SalaryMin

\* line 42: the select box offers its options only
denom_ok(accrual_denom) == accrual_denom \in AccrualDenoms

\* line 43: the slider keeps the value between its ends
cpi_ok(cpi) == CpiMin <= cpi /\ cpi <= CpiMax

\* lines 40-43: the values the four widgets return
RecordInputs == {t \in Entered : salary_ok(t[2]) /\ denom_ok(t[3]) /\ cpi_ok(t[4])}

\* line 56: st.number_input("Normal Pension Age (NPA)", value=67, min_value=50)
NpaInputs == {67}

\* line 57: st.number_input("Planned Retirement Age", value=67, min_value=50)
RetireAgeInputs == {65, 67, 68}

\* line 58: st.number_input("Annual Reduction % (if early)", value=4.0, step=0.5)
ReductionInputs == {4, 50, 60}

\* ------------------------------------------------------------------- state
VARIABLES
    pc,                 \* section of the script the current run is about to execute
    now,                \* datetime.datetime.now(), in seconds
    default_timestamp,  \* Block.timestamp, the dataclass field default (line 23)
    has_chain,          \* "chain" in st.session_state
    chain,              \* st.session_state.chain
    clicked,            \* st.button("Secure Year in Blockchain") of the current run
    npa, retire_age, reduction_rate,                \* lines 56-58
    total_pension_raw, final_pension, status_msg,   \* lines 61-70
    years_early, total_reduction,                   \* lines 64-65
    df_data                                         \* lines 85-95

vars == <<pc, now, default_timestamp, has_chain, chain, clicked,
          npa, retire_age, reduction_rate, total_pension_raw, final_pension,
          status_msg, years_early, total_reduction, df_data>>

session == <<has_chain, chain>>
settings == <<npa, retire_age, reduction_rate>>
results == <<total_pension_raw, final_pension, status_msg, years_early, total_reduction>>

\* ------------------------------------------------------------ PensionRecord
PensionRecord(year, salary, accrual_rate, cpi_index) ==
    [year |-> year, salary |-> salary, accrual_rate |-> accrual_rate,
     cpi_index |-> cpi_index]

\* line 16: (salary * accrual_rate) * (1 + cpi_index), scaled by AccrualScale*CpiScale
calculate_unit(r) == (r.salary * r.accrual_rate) * (CpiScale + r.cpi_index)

\* -------------------------------------------------------------------- Block
Block(index, record, prev_hash, timestamp) ==
    [index |-> index, record |-> record, prev_hash |-> prev_hash,
     timestamp |-> timestamp]

\* line 27: hashlib.sha256(...).hexdigest(), collision-free
sha256(s) == <<"sha256", s>>

\* line 26: f"{self.index}{self.record}{self.prev_hash}{self.timestamp}"
block_string(b) == <<b.index, b.record, b.prev_hash, b.timestamp>>

hash_block(b) == sha256(block_string(b))

\* line 35: the previous-hash of the genesis block, the string "0"
GenesisPrevHash == <<"0">>

\* line 34
genesis_record == PensionRecord(GenesisYear, 0, 0, 0)

\* line 35: Block(0, genesis_record, "0"), timestamp left to the field default
GenesisBlock(dflt) == Block(0, genesis_record, GenesisPrevHash, dflt)

\* the initialisation without the "not in st.session_state" guard
InitialisedChainUnguarded(has, ch, dflt) == <<GenesisBlock(dflt)>>

\* lines 33-35: the chain after the initialisation section
InitialisedChain(has, ch, dflt) == IF has THEN ch ELSE <<GenesisBlock(dflt)>>

\* lines 46-47
new_record(year, salary, accrual_denom, cpi) ==
    PensionRecord(year, salary, AccrualScale \div accrual_denom, cpi)

\* the new block linked to chain[0] instead of chain[-1]
new_block_first_link(ch, rec, dflt) == Block(Len(ch), rec, hash_block(ch[1]), dflt)

\* the new block numbered from one instead of from zero
new_block_one_based(ch, rec, dflt) == Block(Len(ch) + 1, rec, hash_block(ch[Len(ch)]), dflt)

\* lines 48-49: Block(len(chain), new_record, chain[-1].hash_block())
new_block(ch, rec, dflt) == Block(Len(ch), rec, hash_block(ch[Len(ch)]), dflt)

\* chain.insert(1, new_block) instead of chain.append(new_block)
append_after_genesis(ch, b) == <<ch[1], b>> \o Tail(ch)

\* line 50: chain.append(new_block)
append(ch, b) == Append(ch, b)

\* ------------------------------------------------------------- calculations
RECURSIVE sum_units(_)
sum_units(blocks) ==
    IF blocks = <<>> THEN 0
    ELSE sum_units(SubSeq(blocks, 1, Len(blocks) - 1))
         + calculate_unit(blocks[Len(blocks)].record)

\* the total taken over one record per year, the latest one
raw_total_by_year(ch) ==
    LET latest(b) == \A j \in 1..Len(ch) :
                        ch[j].record.year = b.record.year => ch[j].index <= b.index
    IN  sum_units(SelectSeq(Tail(ch), latest))

\* line 61: sum(b.record.calculate_unit() for b in chain[1:])
raw_total(ch) == sum_units(Tail(ch))

\* retirement at the normal pension age taken for early
is_early_inclusive(n, r) == r <= n

\* line 63
is_early(n, r) == r < n

\* the early pension clamped at zero
early_pension_clamped(raw, n, r, rate) ==
    IF raw * (RateScale - (n - r) * rate) < 0 THEN 0
    ELSE raw * (RateScale - (n - r) * rate)

\* lines 64-66, scaled by AccrualScale*CpiScale*RateScale
early_pension(raw, n, r, rate) == raw * (RateScale - (n - r) * rate)

\* line 69, on the same scale
full_pension(raw) == raw * RateScale

\* ------------------------------------------------------------------ display
\* lines 86-95: one table row per non-genesis block
table_row(b) ==
    [Year |-> b.record.year, Salary |-> b.record.salary,
     Accrual |-> AccrualScale \div b.record.accrual_rate,
     Inflation |-> b.record.cpi_index,
     PensionEarned |-> calculate_unit(b.record)]

ledger_table(ch) == [i \in 1..(Len(ch) - 1) |-> table_row(ch[i + 1])]

\* ------------------------------------------------------------------ actions
Init ==
    /\ pc = "define"
    /\ now = 0
    /\ default_timestamp = NotDefined
    /\ has_chain = FALSE
    /\ chain = <<>>
    /\ clicked = FALSE
    /\ npa = NotDefined /\ retire_age = NotDefined /\ reduction_rate = NotDefined
    /\ total_pension_raw = NotDefined /\ final_pension = NotDefined
    /\ status_msg = NotDefined
    /\ years_early = NotDefined /\ total_reduction = NotDefined
    /\ df_data = NotDefined

\* the wall clock advances
Tick ==
    /\ now < MaxClock
    /\ now' = now + 1
    /\ UNCHANGED <<pc, default_timestamp, session, clicked, settings, results, df_data>>

\* lines 18-27: the class statement evaluates the field default once
DefineClasses ==
    /\ pc = "define"
    /\ default_timestamp' = now
    /\ pc' = "init"
    /\ UNCHANGED <<now, session, clicked, settings, results, df_data>>

\* lines 33-35
InitChain ==
    /\ pc = "init"
    /\ chain' = InitialisedChain(has_chain, chain, default_timestamp)
    /\ has_chain' = TRUE
    /\ pc' = "sidebar"
    /\ UNCHANGED <<now, default_timestamp, clicked, settings, results, df_data>>

\* lines 38-58 with the button pressed
SecureYear ==
    /\ pc = "sidebar"
    /\ clicked
    /\ \E t \in RecordInputs :
          chain' = append(chain, new_block(chain,
                              new_record(t[1], t[2], t[3], t[4]),
                              default_timestamp))
    /\ \E n \in NpaInputs, r \in RetireAgeInputs, rate \in ReductionInputs :
          /\ npa' = n
          /\ retire_age' = r
          /\ reduction_rate' = rate
    /\ pc' = "calc"
    /\ UNCHANGED <<now, default_timestamp, has_chain, clicked, results, df_data>>

\* lines 38-58 with the button not pressed
ReadSidebar ==
    /\ pc = "sidebar"
    /\ ~clicked
    /\ \E n \in NpaInputs, r \in RetireAgeInputs, rate \in ReductionInputs :
          /\ npa' = n
          /\ retire_age' = r
          /\ reduction_rate' = rate
    /\ pc' = "calc"
    /\ UNCHANGED <<now, default_timestamp, session, clicked, results, df_data>>

\* lines 61-70
Calculations ==
    /\ pc = "calc"
    /\ total_pension_raw' = raw_total(chain)
    /\ IF is_early(npa, retire_age)
       THEN /\ years_early' = npa - retire_age
            /\ total_reduction' = (npa - retire_age) * reduction_rate
            /\ final_pension' = early_pension(raw_total(chain), npa, retire_age,
                                              reduction_rate)
            /\ status_msg' = "Early Retirement"
       ELSE /\ final_pension' = full_pension(raw_total(chain))
            /\ status_msg' = "Retirement at or after NPA: 100%"
            /\ UNCHANGED <<years_early, total_reduction>>
    /\ pc' = "display"
    /\ UNCHANGED <<now, default_timestamp, session, clicked, settings, df_data>>

\* lines 73-100
Display ==
    /\ pc = "display"
    /\ df_data' = ledger_table(chain)
    /\ pc' = "idle"
    /\ UNCHANGED <<now, default_timestamp, session, clicked, settings, results>>

\* a rerun starts in a fresh namespace; only the session state survives
Rerun(button) ==
    /\ pc = "idle"
    /\ clicked' = button
    /\ default_timestamp' = NotDefined
    /\ npa' = NotDefined /\ retire_age' = NotDefined /\ reduction_rate' = NotDefined
    /\ total_pension_raw' = NotDefined /\ final_pension' = NotDefined
    /\ status_msg' = NotDefined
    /\ years_early' = NotDefined /\ total_reduction' = NotDefined
    /\ df_data' = NotDefined
    /\ pc' = "define"
    /\ UNCHANGED <<now, session>>

\* the user presses "Secure Year in Blockchain"
ClickButton ==
    /\ Len(chain) < MaxBlocks
    /\ Rerun(TRUE)

\* the user changes any other widget
ChangeWidget == Rerun(FALSE)

Next ==
    \/ Tick
    \/ DefineClasses
    \/ InitChain
    \/ SecureYear
    \/ ReadSidebar
    \/ Calculations
    \/ Display
    \/ ClickButton
    \/ ChangeWidget

Spec == Init /\ [][Next]_vars

\* ============================================================== properties
Computed == pc \in {"display", "idle"}      \* lines 61-70 have run in this script run

NonGenesis == 2..Len(chain)

\* the step runs the button handler of lines 45-51
Secured == pc = "sidebar" /\ clicked /\ pc' = "calc"

IsPrefix(s, t) == Len(s) <= Len(t) /\ SubSeq(t, 1, Len(s)) = s

\* the unit of a record, written out from its fields
UnitOf(r) == r.salary * r.accrual_rate * (CpiScale + r.cpi_index)

\* the sum of the units of the blocks at positions i..Len(ch)
RECURSIVE UnitsFrom(_, _)
UnitsFrom(ch, i) == IF i > Len(ch) THEN 0 ELSE UnitOf(ch[i].record) + UnitsFrom(ch, i + 1)

\* C1: in every reachable state each non-genesis block stores, as prev_hash,
\* the hash recomputed from the current fields of the block just before it.
C1_HashLinked ==
    has_chain => \A i \in NonGenesis : chain[i].prev_hash = hash_block(chain[i - 1])

\* two appends have run, so two links exist, and the two blocks hold different records
C1_Witness ==
    /\ has_chain /\ Len(chain) = 3 /\ pc = "calc"
    /\ chain[2].record # chain[3].record
    /\ chain[3].prev_hash = hash_block(chain[2])

\* C2: every append makes the chain exactly one block longer and numbers the
\* new block with the new length minus one; in every reachable state the
\* block at position i (counted from zero) has index i.
C2_AppendMonotone ==
    /\ [](has_chain => \A i \in 1..Len(chain) : chain[i].index = i - 1)
    /\ [][Secured => /\ Len(chain') = Len(chain) + 1
                     /\ chain'[Len(chain')].index = Len(chain') - 1]_vars

\* the second append has just run
C2_Witness ==
    /\ has_chain /\ clicked /\ pc = "calc" /\ Len(chain) = 3
    /\ chain[3].index = 2

\* C3: once the session has a chain it is never empty and starts with the
\* genesis block (index 0, prev_hash "0", salary 0, accrual rate 0, cpi 0);
\* the genesis block is created when the session has no chain and no later
\* script run or append creates it again or replaces it.
C3_GenesisFirst ==
    /\ [](has_chain => /\ Len(chain) >= 1
                       /\ chain[1].index = 0
                       /\ chain[1].prev_hash = GenesisPrevHash
                       /\ chain[1].record.salary = 0
                       /\ chain[1].record.accrual_rate = 0
                       /\ chain[1].record.cpi_index = 0)
    /\ [][IF has_chain THEN has_chain' /\ chain'[1] = chain[1]
          ELSE has_chain' => pc = "init" /\ Len(chain') = 1]_vars

\* a later script run, started after the clock moved on, has passed the
\* initialisation section and the genesis block of the first run is still there
C3_Witness ==
    /\ has_chain /\ pc = "sidebar" /\ Len(chain) >= 2
    /\ chain[1].timestamp < default_timestamp

\* C4: the ledger is append-only.  Every step keeps every committed block, with
\* all its fields, at its position; the button handler makes the old chain a
\* strict prefix of the new one; the class definitions, the calculations, the
\* rendering, a rerun and a clock tick leave the chain as it is.
C4_AppendOnly ==
    [][has_chain => /\ IsPrefix(chain, chain')
                    /\ Secured => Len(chain') > Len(chain)
                    /\ ~Secured => chain' = chain]_vars

\* the table of a chain with two committed records has been rendered
C4_Witness ==
    /\ has_chain /\ pc = "idle" /\ Len(chain) = 3
    /\ Len(df_data) = 2

\* C6: once computed, total_pension_raw is the sum of salary * accrual_rate *
\* (1 + cpi_index) over the non-genesis blocks, each block counted once even
\* when two blocks carry the same year, and it is 0 for a chain that holds
\* only the genesis block.
C6_RawTotal ==
    (has_chain /\ Computed) =>
        /\ total_pension_raw = UnitsFrom(chain, 2)
        /\ Len(chain) = 1 => total_pension_raw = 0

\* two records of the same year, both with a positive unit, have been summed
C6_Witness ==
    /\ has_chain /\ Computed /\ Len(chain) = 3
    /\ chain[2].record.year = chain[3].record.year
    /\ UnitOf(chain[2].record) > 0 /\ UnitOf(chain[3].record) > 0
    /\ total_pension_raw = UnitOf(chain[2].record) + UnitOf(chain[3].record)

\* C7: once computed, the projection is the piecewise one.  For a planned
\* retirement age below the normal pension age the reduction is the years
\* early times the annual rate, the final pension is the raw total times one
\* minus the reduction and the status is early retirement (67/65/4% gives 92%
\* of the raw total); otherwise the final pension is the raw total, nothing is
\* taken off and the status is full entitlement.
C7_Piecewise ==
    Computed =>
        IF retire_age < npa
        THEN /\ years_early = npa - retire_age
             /\ total_reduction = years_early * reduction_rate
             /\ final_pension = total_pension_raw * (RateScale - total_reduction)
             /\ status_msg = "Early Retirement"
             /\ (npa = 67 /\ retire_age = 65 /\ reduction_rate = 4)
                   => final_pension = total_pension_raw * 92
        ELSE /\ final_pension = total_pension_raw * RateScale
             /\ total_pension_raw * RateScale - final_pension = 0
             /\ status_msg = "Retirement at or after NPA: 100%"

\* the 67/65/4% example has been computed on a positive raw total
C7_Witness ==
    /\ Computed /\ npa = 67 /\ retire_age = 65 /\ reduction_rate = 4
    /\ total_pension_raw > 0
    /\ final_pension = total_pension_raw * 92

\* C8: the early-retirement reduction is not clamped.  Once computed, with a
\* planned retirement age below the normal pension age and a positive raw
\* total, a reduction above 100% leaves a strictly negative final pension and
\* a reduction of exactly 100% leaves 0; rendering keeps the computed value.
C8_NoClamp ==
    (Computed /\ retire_age < npa /\ total_pension_raw > 0) =>
        /\ (npa - retire_age) * reduction_rate > RateScale => final_pension < 0
        /\ (npa - retire_age) * reduction_rate = RateScale => final_pension = 0

\* a reduction of 120% has been applied to a positive raw total and rendered
C8_Witness ==
    /\ pc = "idle" /\ retire_age < npa /\ total_pension_raw > 0
    /\ (npa - retire_age) * reduction_rate > RateScale
    /\ final_pension < 0

\* C9: each append stamps the new block with the clock reading at the moment
\* the block is constructed, and no later step changes a committed timestamp.
C9_StampedAtConstruction ==
    [][/\ Secured => chain'[Len(chain')].timestamp = now
       /\ has_chain => \A i \in 1..Len(chain) :
                          chain'[i].timestamp = chain[i].timestamp]_vars

\* C10: with the values the sidebar lets through, every committed record has a
\* unit >= 0, the raw total of the chain is >= 0 in every reachable state and
\* no step makes it smaller.
C10_NonNegative ==
    /\ [](has_chain => /\ \A i \in NonGenesis : calculate_unit(chain[i].record) >= 0
                       /\ raw_total(chain) >= 0
                       /\ Computed => total_pension_raw >= 0)
    /\ [][(has_chain /\ has_chain') => raw_total(chain') >= raw_total(chain)]_vars

\* a record with salary 0 (unit 0) is committed, and after it a record with a
\* positive salary and the lowest revaluation the slider allows
C10_Witness ==
    /\ has_chain /\ Computed /\ Len(chain) = 3
    /\ chain[2].record.salary = 0
    /\ chain[3].record.cpi_index = CpiMin
    /\ total_pension_raw > 0

====
